---- MODULE Spec2Model ----
(***************************************************************************)
(* UndoRedoManager (src/main/undo_redo_manager.py): a bounded undo/redo    *)
(* history kept in memory and persisted to a primary file with a .bak      *)
(* sidecar.  Threads call add_state, undo, redo and _save on one manager;  *)
(* every method body runs under self.lock, a threading.Lock, which is not  *)
(* reentrant.  The process may be killed at any step and a new manager     *)
(* constructed on the same files.                                          *)
(*                                                                         *)
(* Beside it, each with variables and a specification of its own: the      *)
(* change history log and its rollback command, the version snapshot       *)
(* store, the dependency analyzer and the flat key-level diff.             *)
(***************************************************************************)
EXTENDS Integers, Sequences, FiniteSets, TLC

\* ---------------------------------------------------------------- bounds
MaxLen == 2
NumThreads == 2
MaxMaxHistory == 2
MaxLog == 2
MaxTime == 3
TicksPerSecond == 2
MaxClock == 1
MaxRetry == 2
MaxDepth == 4

States == {"A", "B"}
Threads == 1..NumThreads
MaxHistories == 0..MaxMaxHistory

\* ---------------------------------------------------------------- values
None == "None"
\* a file is a record: missing, unparseable bytes, or one JSON generation
Absent == [kind |-> "absent"]
Corrupt == [kind |-> "corrupt"]
Free == 0

Min(a, b) == IF a < b THEN a ELSE b
Max(a, b) == IF a > b THEN a ELSE b

\* Python s[:stop]
PySliceTo(s, stop) ==
  LET n == Len(s)
      e == IF stop < 0 THEN Max(n + stop, 0) ELSE Min(stop, n)
  IN SubSeq(s, 1, e)

\* Python s[start:]
PySliceFrom(s, start) ==
  LET n == Len(s)
      b == IF start < 0 THEN Max(n + start, 0) ELSE Min(start, n)
  IN SubSeq(s, b + 1, n)

\* the JSON object {"history": ..., "index": ...} that _save dumps
Gen(h, i) == [kind |-> "gen", history |-> h, index |-> i]

EmptyGen == Gen(<<>>, -1)

SeqsUpTo(n) == UNION {[1..k -> States] : k \in 0..n}

\* a generation as a manager leaves it on disk
WellFormed(g) ==
  IF g.history = <<>> THEN g.index = -1
  ELSE g.index >= 0 /\ g.index < Len(g.history)

Generations ==
  {g \in {Gen(h, i) : h \in SeqsUpTo(MaxLen), i \in (-1)..(MaxLen - 1)} : WellFormed(g)}

\* what a file can hold: nothing, unparseable bytes, or one generation
FileContents == {Absent, Corrupt} \cup Generations

IsGen(f) == f.kind = "gen"

\* _load without the except branch's recovery from the sidecar
LoadNoFallback(p, b) == IF IsGen(p) THEN p ELSE EmptyGen

\* _load, called by the constructor on history = [], index = -1
Load(p, b) ==
  IF p = Absent THEN EmptyGen
  ELSE IF IsGen(p) THEN p
  ELSE IF b = Absent THEN EmptyGen
  ELSE IF IsGen(b) THEN b
  ELSE EmptyGen

Ops == {"add_state", "undo", "redo", "_save"}

VARIABLES history, index, max_history, lock, pc, op, ret, primary, bak

vars == <<history, index, max_history, lock, pc, op, ret, primary, bak>>

\* the change history tool: the log file's lines, the rollback output file of
\* each preset, and what the last command reported
VARIABLES log, out, msg

hvars == <<log, out, msg>>

\* the version store: the clock in seconds, the files of preset_dir and of
\* version_dir, and each caller's call in progress
VARIABLES clock, presets, versions, vcall

vvars == <<clock, presets, versions, vcall>>

\* the dependency analyzer: the map a function is called on, the call, its
\* stack of activations, and the memo, visited and cycles it builds up
VARIABLES dep_map, dop, stack, memo, visited, cycles, result

dvars == <<dep_map, dop, stack, memo, visited, cycles, result>>

\* the flat diff: the function called, the two dicts it is given and what it
\* returns or prints
VARIABLES tool, d1, d2, diffs

fvars == <<tool, d1, d2, diffs>>

\* the batch analysis: the files of the directory analysed, the call of
\* analyze_all_dependencies in progress, what it returned, and a call of
\* find_isolated_presets
VARIABLES preset_dir, acall, report, isolated

avars == <<preset_dir, acall, report, isolated>>

\* what the manager's steps leave alone: the files of the other tools
notManager == <<hvars, vvars, dvars, fvars, avars>>

\* what the history tool's commands leave alone
notHistory == <<vars, vvars, dvars, fvars, avars>>

\* what the version store's methods leave alone
notVersions == <<vars, hvars, dvars, fvars, avars>>

\* what the analyzer's functions leave alone
notDeps == <<vars, hvars, vvars, fvars, avars>>

\* what the diff functions leave alone
notDiff == <<vars, hvars, vvars, dvars, avars>>

\* what the batch analysis leaves alone
notAnalysis == <<vars, hvars, vvars, dvars, fvars>>

TypeOK ==
  /\ history \in SeqsUpTo(MaxLen + 1)
  /\ index \in (-1)..MaxLen
  /\ max_history \in MaxHistories
  /\ lock \in {Free} \cup Threads
  /\ op \in [Threads -> Ops \cup {"none"}]
  /\ ret \in [Threads -> States \cup {None}]
  /\ primary \in FileContents
  /\ bak \in FileContents

\* ---------------------------------------------------------------- construction
\* the manager is constructed on no file yet, or on a primary file holding a
\* generation persisted earlier; sidecars come from the saves that follow
Init ==
  /\ primary \in {Absent} \cup Generations
  /\ bak = Absent
  /\ max_history \in MaxHistories
  /\ history = Load(primary, bak).history
  /\ index = Load(primary, bak).index
  /\ lock = Free
  /\ pc = [t \in Threads |-> "idle"]
  /\ op = [t \in Threads |-> "none"]
  /\ ret = [t \in Threads |-> None]

\* ---------------------------------------------------------------- calls
Call(t) ==
  /\ pc[t] = "idle"
  /\ \E o \in Ops :
       /\ op' = [op EXCEPT ![t] = o]
       /\ pc' = [pc EXCEPT ![t] = IF o = "_save" THEN "save_lock" ELSE "lock"]
  /\ UNCHANGED <<history, index, max_history, lock, ret, primary, bak>>
  /\ UNCHANGED notManager

\* entering the body without waiting for the lock to be free
AcquireNoWait(t) ==
  /\ pc[t] = "lock"
  /\ lock' = t
  /\ pc' = [pc EXCEPT ![t] =
              CASE op[t] = "add_state" -> "add_trunc"
                [] op[t] = "undo" -> "undo"
                [] OTHER -> "redo"]
  /\ UNCHANGED <<history, index, max_history, op, ret, primary, bak>>
  /\ UNCHANGED notManager

\* `with self.lock:` of add_state, undo, redo
Acquire(t) ==
  /\ pc[t] = "lock"
  /\ lock = Free
  /\ lock' = t
  /\ pc' = [pc EXCEPT ![t] =
              CASE op[t] = "add_state" -> "add_trunc"
                [] op[t] = "undo" -> "undo"
                [] OTHER -> "redo"]
  /\ UNCHANGED <<history, index, max_history, op, ret, primary, bak>>
  /\ UNCHANGED notManager

\* ---------------------------------------------------------------- add_state
AddTruncate(t) ==
  /\ pc[t] = "add_trunc"
  /\ history' = PySliceTo(history, index + 1)
  /\ pc' = [pc EXCEPT ![t] = "add_append"]
  /\ UNCHANGED <<index, max_history, lock, op, ret, primary, bak>>
  /\ UNCHANGED notManager

AddAppend(t) ==
  /\ pc[t] = "add_append"
  /\ \E s \in States : history' = Append(history, s)
  /\ pc' = [pc EXCEPT ![t] = "add_bound"]
  /\ UNCHANGED <<index, max_history, lock, op, ret, primary, bak>>
  /\ UNCHANGED notManager

Bounded(h, m) == IF Len(h) > m THEN PySliceFrom(h, -m) ELSE h

AddBound(t) ==
  /\ pc[t] = "add_bound"
  /\ history' = Bounded(history, max_history)
  /\ pc' = [pc EXCEPT ![t] = "add_index"]
  /\ UNCHANGED <<index, max_history, lock, op, ret, primary, bak>>
  /\ UNCHANGED notManager

AddIndex(t) ==
  /\ pc[t] = "add_index"
  /\ index' = Len(history) - 1
  /\ pc' = [pc EXCEPT ![t] = "save_lock"]
  /\ UNCHANGED <<history, max_history, lock, op, ret, primary, bak>>
  /\ UNCHANGED notManager

\* ---------------------------------------------------------------- undo / redo
\* undo's guard written index >= 0
CanUndoFromZero(i) == i >= 0

CanUndo(i) == i > 0

\* redo's guard written index < len(history)
CanRedoPastEnd(h, i) == i < Len(h)

CanRedo(h, i) == i < Len(h) - 1

Undo(t) ==
  /\ pc[t] = "undo"
  /\ IF CanUndo(index)
       THEN /\ index' = index - 1
            /\ pc' = [pc EXCEPT ![t] = "save_lock"]
       ELSE /\ index' = index
            /\ pc' = [pc EXCEPT ![t] = "ret_none"]
  /\ UNCHANGED <<history, max_history, lock, op, ret, primary, bak>>
  /\ UNCHANGED notManager

Redo(t) ==
  /\ pc[t] = "redo"
  /\ IF CanRedo(history, index)
       THEN /\ index' = index + 1
            /\ pc' = [pc EXCEPT ![t] = "save_lock"]
       ELSE /\ index' = index
            /\ pc' = [pc EXCEPT ![t] = "ret_none"]
  /\ UNCHANGED <<history, max_history, lock, op, ret, primary, bak>>
  /\ UNCHANGED notManager

\* ---------------------------------------------------------------- _save
\* `with self.lock:` of _save: threading.Lock has no owner, so a thread that
\* already holds it waits like any other
SaveAcquire(t) ==
  /\ pc[t] = "save_lock"
  /\ lock = Free
  /\ lock' = t
  /\ pc' = [pc EXCEPT ![t] = "save_copy"]
  /\ UNCHANGED <<history, index, max_history, op, ret, primary, bak>>
  /\ UNCHANGED notManager

SaveCopy(t) ==
  /\ pc[t] = "save_copy"
  /\ bak' = IF primary # Absent THEN primary ELSE bak
  /\ pc' = [pc EXCEPT ![t] = "save_open"]
  /\ UNCHANGED <<history, index, max_history, lock, op, ret, primary>>
  /\ UNCHANGED notManager

\* shutil.copy2 raises: logged, the sidecar stays as it was, and _save goes on
SaveCopyFail(t) ==
  /\ pc[t] = "save_copy"
  /\ primary # Absent
  /\ bak' = bak
  /\ pc' = [pc EXCEPT ![t] = "save_open"]
  /\ UNCHANGED <<history, index, max_history, lock, op, ret, primary>>
  /\ UNCHANGED notManager

\* open(history_file, 'w') truncates the file: until the dump is complete the
\* primary file does not parse
SaveOpen(t) ==
  /\ pc[t] = "save_open"
  /\ primary' = Corrupt
  /\ pc' = [pc EXCEPT ![t] = "save_write"]
  /\ UNCHANGED <<history, index, max_history, lock, op, ret, bak>>
  /\ UNCHANGED notManager

\* open raises: logged, nothing written
SaveOpenFail(t) ==
  /\ pc[t] = "save_open"
  /\ pc' = [pc EXCEPT ![t] = "save_exit"]
  /\ UNCHANGED <<history, index, max_history, lock, op, ret, primary, bak>>
  /\ UNCHANGED notManager

\* json.dump, flush, fsync
SaveWrite(t) ==
  /\ pc[t] = "save_write"
  /\ primary' = Gen(history, index)
  /\ pc' = [pc EXCEPT ![t] = "save_exit"]
  /\ UNCHANGED <<history, index, max_history, lock, op, ret, bak>>
  /\ UNCHANGED notManager

\* the dump raises part-way: logged, the primary file is left incomplete
SaveWriteFail(t) ==
  /\ pc[t] = "save_write"
  /\ primary' = Corrupt
  /\ pc' = [pc EXCEPT ![t] = "save_exit"]
  /\ UNCHANGED <<history, index, max_history, lock, op, ret, bak>>
  /\ UNCHANGED notManager

\* end of _save's with block; control goes back to the caller
SaveExit(t) ==
  /\ pc[t] = "save_exit"
  /\ lock' = Free
  /\ pc' = [pc EXCEPT ![t] =
              CASE op[t] = "_save" -> "idle"
                [] op[t] = "add_state" -> "ret_none"
                [] OTHER -> "ret_state"]
  /\ ret' = IF op[t] = "_save" THEN [ret EXCEPT ![t] = None] ELSE ret
  /\ UNCHANGED <<history, index, max_history, op, primary, bak>>
  /\ UNCHANGED notManager

\* return of add_state, undo, redo, leaving their with block
Return(t) ==
  /\ pc[t] \in {"ret_none", "ret_state"}
  /\ ret' = [ret EXCEPT ![t] =
               IF pc[t] = "ret_none" THEN None ELSE history[index + 1]]
  /\ lock' = Free
  /\ pc' = [pc EXCEPT ![t] = "idle"]
  /\ UNCHANGED <<history, index, max_history, op, primary, bak>>
  /\ UNCHANGED notManager

\* ---------------------------------------------------------------- crash
\* the process dies and a new one constructs a manager on the same files
CrashReload ==
  /\ history' = Load(primary, bak).history
  /\ index' = Load(primary, bak).index
  /\ lock' = Free
  /\ pc' = [t \in Threads |-> "idle"]
  /\ op' = [t \in Threads |-> "none"]
  /\ ret' = [t \in Threads |-> None]
  /\ UNCHANGED <<max_history, primary, bak>>
  /\ UNCHANGED notManager

Step(t) ==
  \/ Acquire(t)
  \/ AddTruncate(t)
  \/ AddAppend(t)
  \/ AddBound(t)
  \/ AddIndex(t)
  \/ Undo(t)
  \/ Redo(t)
  \/ SaveAcquire(t)
  \/ SaveCopy(t)
  \/ SaveCopyFail(t)
  \/ SaveOpen(t)
  \/ SaveOpenFail(t)
  \/ SaveWrite(t)
  \/ SaveWriteFail(t)
  \/ SaveExit(t)
  \/ Return(t)

\* one process running: calls and their steps
Run ==
  \/ \E t \in Threads : Call(t)
  \/ \E t \in Threads : Step(t)

Next ==
  \/ Run
  \/ CrashReload

\* ================================================================
\* PresetChangeHistory (src/main/preset_change_history.py) and the rollback
\* command of src/main/preset_history_diff_and_rollback.py.  The log is a
\* JSON-lines file; each command runs alone in a process of its own.

PresetNames == {"p", "q"}

\* the documents a preset is changed to (the `after` of an entry)
Snapshots == {"s1", "s2"}

\* time.time() in ticks; the clock may be set back between two calls
Times == 0..MaxTime

\* the whole seconds a time string 'YYYY-mm-dd HH:MM:SS' can name
Seconds == 0..(MaxTime \div TicksPerSecond)

\* datetime.strptime(ts, ...).timestamp(): the tick at which second s begins
Timestamp(s) == s * TicksPerSecond

Abs(x) == IF x < 0 THEN -x ELSE x

\* a line holding only white space
Blank == [kind |-> "blank"]

\* the line record_change writes; of its fields the commands modelled here read
\* timestamp, preset_name and after
Entry(ts, p, a) ==
  [kind |-> "entry", timestamp |-> ts, preset_name |-> p, after |-> a]

Entries == {Entry(ts, p, a) : ts \in Times, p \in PresetNames, a \in Snapshots}

Lines == Entries \cup {Blank}

\* a JSON file holding document a
Written(a) == [kind |-> "json", value |-> a]

\* find_entry_by_time's result on an empty list
NoEntry == [kind |-> "none"]

\* what a command printed: nothing, "not found", or the rollback message
NoReport == [kind |-> "none"]
Report(k, p, s) == [kind |-> k, preset |-> p, time |-> s]

\* iter_history yielding every entry whatever the filter
IterHistoryUnfiltered(f, preset_name) ==
  SelectSeq(f, LAMBDA line : line # Blank)

\* iter_history(preset_name); a missing file and an empty one both give <<>>
IterHistory(f, preset_name) ==
  SelectSeq(f, LAMBDA line :
     /\ line # Blank
     /\ (preset_name = None \/ line.preset_name = preset_name))

RECURSIVE ClosestLast(_, _, _)
\* the loop of find_entry_by_time taking a later entry that is as close
ClosestLast(entries, target, closest) ==
  IF entries = <<>> THEN closest
  ELSE LET e == Head(entries)
           better ==
             \/ closest = NoEntry
             \/ Abs(e.timestamp - target) <= Abs(closest.timestamp - target)
       IN ClosestLast(Tail(entries), target, IF better THEN e ELSE closest)

RECURSIVE Closest(_, _, _)
\* the loop of find_entry_by_time over the entries left, closest so far given
Closest(entries, target, closest) ==
  IF entries = <<>> THEN closest
  ELSE LET e == Head(entries)
           better ==
             \/ closest = NoEntry
             \/ Abs(e.timestamp - target) < Abs(closest.timestamp - target)
       IN Closest(Tail(entries), target, IF better THEN e ELSE closest)

\* find_entry_by_time accepting only an entry stamped exactly at the target
FindEntryAtTime(entries, s) ==
  LET hits == SelectSeq(entries, LAMBDA e : e.timestamp = Timestamp(s))
  IN IF hits = <<>> THEN NoEntry ELSE Head(hits)

FindEntryByTime(entries, s) == Closest(entries, Timestamp(s), NoEntry)

HInit ==
  /\ log = <<>>
  /\ out = [p \in PresetNames |-> Absent]
  /\ msg = NoReport

\* record_change opening the log with mode "w"
RecordChangeTruncating ==
  /\ Len(log) < MaxLog
  /\ \E ts \in Times : \E p \in PresetNames : \E a \in Snapshots :
       log' = <<Entry(ts, p, a)>>
  /\ msg' = NoReport
  /\ UNCHANGED out
  /\ UNCHANGED notHistory

RecordChange ==
  /\ Len(log) < MaxLog
  /\ \E ts \in Times : \E p \in PresetNames : \E a \in Snapshots :
       log' = Append(log, Entry(ts, p, a))
  /\ msg' = NoReport
  /\ UNCHANGED out
  /\ UNCHANGED notHistory

\* the log is edited by hand and a blank line is left at its end, the case
\* iter_history skips
BlankLine ==
  /\ Len(log) < MaxLog
  /\ log' = Append(log, Blank)
  /\ msg' = NoReport
  /\ UNCHANGED out
  /\ UNCHANGED notHistory

\* a rollback that also records itself in the log
RollbackRecording ==
  /\ \E p \in PresetNames : \E s \in Seconds :
       LET e == FindEntryByTime(IterHistory(log, p), s)
       IN IF e = NoEntry
            THEN /\ msg' = Report("not_found", p, s)
                 /\ UNCHANGED <<log, out>>
            ELSE /\ out' = [out EXCEPT ![p] = Written(e.after)]
                 /\ log' = IF Len(log) < MaxLog THEN Append(log, e) ELSE log
                 /\ msg' = Report("rolled_back", p, s)
  /\ UNCHANGED notHistory

\* main() with --rollback and the default output path rollback_<preset>.json
Rollback ==
  /\ \E p \in PresetNames : \E s \in Seconds :
       LET e == FindEntryByTime(IterHistory(log, p), s)
       IN IF e = NoEntry
            THEN /\ msg' = Report("not_found", p, s)
                 /\ UNCHANGED <<log, out>>
            ELSE /\ out' = [out EXCEPT ![p] = Written(e.after)]
                 /\ msg' = Report("rolled_back", p, s)
                 /\ UNCHANGED log
  /\ UNCHANGED notHistory

HNext ==
  \/ RecordChange
  \/ BlankLine
  \/ Rollback

\* ================================================================
\* PresetVersionManager (src/main/preset_version_manager.py): snapshots of
\* preset files, named after the preset and the second they were taken in.
\* A file name is the sequence of its parts, the extension being one part.

PresetFiles == {<<"a", ".json">>, <<"a", "b", ".json">>}

\* the documents a preset file may hold
Docs == {"d1", "d2"}

Clock == 0..MaxClock

Retries == 0..MaxRetry

Callers == {1, 2}

\* preset_name.replace('.json', '')
Base(name) == SelectSeq(name, LAMBDA part : part # ".json")

\* f"{base}_v{timestamp}.json" with the timestamp of second t
VersionName(name, t) == [base |-> Base(name), stamp |-> t]

VersionNames == {VersionName(n, t) : n \in PresetFiles, t \in Clock}

\* no version file named yet
NoVersion == [base |-> <<>>, stamp |-> -1]

\* a call in progress: the method, its position, its arguments, the loop
\* counter i and what it has printed
CallRec(o, at, p, v, r, i, said) ==
  [op |-> o, pc |-> at, preset |-> p, version |-> v, retry |-> r, i |-> i,
   said |-> said]

Idle == CallRec("none", "idle", <<>>, NoVersion, 0, 0, "nothing")

\* the method is over, having printed `said`
Done(call, said) == [call EXCEPT !.pc = "done", !.said = said]

VInit ==
  /\ clock = 0
  /\ presets = [n \in PresetFiles |-> Absent]
  /\ versions = [v \in VersionNames |-> Absent]
  /\ vcall = [c \in Callers |-> Idle]

\* ---------------------------------------------------------------- environment
\* the next second begins
Tick ==
  /\ clock < MaxClock
  /\ clock' = clock + 1
  /\ UNCHANGED <<presets, versions, vcall>>
  /\ UNCHANGED notVersions

\* a preset file is created or rewritten by its editor
EditPreset ==
  /\ \E n \in PresetFiles : \E d \in Docs :
       /\ presets[n] # Written(d)
       /\ presets' = [presets EXCEPT ![n] = Written(d)]
  /\ UNCHANGED <<clock, versions, vcall>>
  /\ UNCHANGED notVersions

\* ---------------------------------------------------------------- save_version
SaveVersionCall(c) ==
  /\ vcall[c] = Idle
  /\ \E n \in PresetFiles : \E r \in Retries :
       vcall' = [vcall EXCEPT ![c] =
                   CallRec("save_version", "isfile", n, NoVersion, r, 0, "nothing")]
  /\ UNCHANGED <<clock, presets, versions>>
  /\ UNCHANGED notVersions

\* lines 14-17
SaveVersionIsFile(c) ==
  /\ vcall[c].op = "save_version" /\ vcall[c].pc = "isfile"
  /\ vcall' = [vcall EXCEPT ![c] =
                 IF presets[vcall[c].preset] = Absent
                   THEN Done(vcall[c], "no_preset")
                   ELSE [vcall[c] EXCEPT !.pc = "exists"]]
  /\ UNCHANGED <<clock, presets, versions>>
  /\ UNCHANGED notVersions

\* lines 18-24 without the os.path.exists test
SaveVersionExistsUnchecked(c) ==
  /\ vcall[c].op = "save_version" /\ vcall[c].pc = "exists"
  /\ vcall' = [vcall EXCEPT ![c] =
                 [vcall[c] EXCEPT !.version = VersionName(vcall[c].preset, clock),
                                  !.pc = "copy"]]
  /\ UNCHANGED <<clock, presets, versions>>
  /\ UNCHANGED notVersions

\* lines 18-24: the name of this second's snapshot, and the duplicate test
SaveVersionExists(c) ==
  /\ vcall[c].op = "save_version" /\ vcall[c].pc = "exists"
  /\ LET dst == VersionName(vcall[c].preset, clock)
     IN vcall' = [vcall EXCEPT ![c] =
                    IF versions[dst] # Absent
                      THEN Done([vcall[c] EXCEPT !.version = dst], "exists")
                      ELSE [vcall[c] EXCEPT !.version = dst, !.pc = "copy"]]
  /\ UNCHANGED <<clock, presets, versions>>
  /\ UNCHANGED notVersions

\* lines 25-29 in a loop that does not count its attempts
SaveVersionCopyUncounted(c) ==
  /\ vcall[c].op = "save_version" /\ vcall[c].pc = "copy"
  /\ versions' = [versions EXCEPT ![vcall[c].version] = presets[vcall[c].preset]]
  /\ vcall' = [vcall EXCEPT ![c] = Done(vcall[c], "saved")]
  /\ UNCHANGED <<clock, presets>>
  /\ UNCHANGED notVersions

\* lines 25-29: shutil.copy2(src, dst) succeeds
SaveVersionCopy(c) ==
  /\ vcall[c].op = "save_version" /\ vcall[c].pc = "copy"
  /\ vcall[c].i < vcall[c].retry
  /\ versions' = [versions EXCEPT ![vcall[c].version] = presets[vcall[c].preset]]
  /\ vcall' = [vcall EXCEPT ![c] = Done(vcall[c], "saved")]
  /\ UNCHANGED <<clock, presets>>
  /\ UNCHANGED notVersions

\* lines 30-31: shutil.copy2 raises, nothing is written, the loop goes on
SaveVersionCopyFail(c) ==
  /\ vcall[c].op = "save_version" /\ vcall[c].pc = "copy"
  /\ vcall[c].i < vcall[c].retry
  /\ vcall' = [vcall EXCEPT ![c] = [vcall[c] EXCEPT !.i = vcall[c].i + 1]]
  /\ UNCHANGED <<clock, presets, versions>>
  /\ UNCHANGED notVersions

\* line 32: the loop is over without a copy
SaveVersionGiveUp(c) ==
  /\ vcall[c].op = "save_version" /\ vcall[c].pc = "copy"
  /\ vcall[c].i >= vcall[c].retry
  /\ vcall' = [vcall EXCEPT ![c] = Done(vcall[c], "could_not_save")]
  /\ UNCHANGED <<clock, presets, versions>>
  /\ UNCHANGED notVersions

\* ---------------------------------------------------------------- restore_version
RestoreVersionCall(c) ==
  /\ vcall[c] = Idle
  /\ \E n \in PresetFiles : \E v \in VersionNames : \E r \in Retries :
       vcall' = [vcall EXCEPT ![c] =
                   CallRec("restore_version", "isfile", n, v, r, 0, "nothing")]
  /\ UNCHANGED <<clock, presets, versions>>
  /\ UNCHANGED notVersions

\* lines 48-52 without the os.path.isfile test
RestoreVersionIsFileUnchecked(c) ==
  /\ vcall[c].op = "restore_version" /\ vcall[c].pc = "isfile"
  /\ vcall' = [vcall EXCEPT ![c] = [vcall[c] EXCEPT !.pc = "copy"]]
  /\ UNCHANGED <<clock, presets, versions>>
  /\ UNCHANGED notVersions

\* lines 48-52
RestoreVersionIsFile(c) ==
  /\ vcall[c].op = "restore_version" /\ vcall[c].pc = "isfile"
  /\ vcall' = [vcall EXCEPT ![c] =
                 IF versions[vcall[c].version] = Absent
                   THEN Done(vcall[c], "not_found")
                   ELSE [vcall[c] EXCEPT !.pc = "copy"]]
  /\ UNCHANGED <<clock, presets, versions>>
  /\ UNCHANGED notVersions

\* lines 53-57: shutil.copy2(src, dst) succeeds
RestoreVersionCopy(c) ==
  /\ vcall[c].op = "restore_version" /\ vcall[c].pc = "copy"
  /\ vcall[c].i < vcall[c].retry
  /\ presets' = [presets EXCEPT ![vcall[c].preset] = versions[vcall[c].version]]
  /\ vcall' = [vcall EXCEPT ![c] = Done(vcall[c], "restored")]
  /\ UNCHANGED <<clock, versions>>
  /\ UNCHANGED notVersions

\* lines 58-59: shutil.copy2 raises, nothing is written, the loop goes on
RestoreVersionCopyFail(c) ==
  /\ vcall[c].op = "restore_version" /\ vcall[c].pc = "copy"
  /\ vcall[c].i < vcall[c].retry
  /\ vcall' = [vcall EXCEPT ![c] = [vcall[c] EXCEPT !.i = vcall[c].i + 1]]
  /\ UNCHANGED <<clock, presets, versions>>
  /\ UNCHANGED notVersions

\* line 60: the loop is over without a copy
RestoreVersionGiveUp(c) ==
  /\ vcall[c].op = "restore_version" /\ vcall[c].pc = "copy"
  /\ vcall[c].i >= vcall[c].retry
  /\ vcall' = [vcall EXCEPT ![c] = Done(vcall[c], "could_not_restore")]
  /\ UNCHANGED <<clock, presets, versions>>
  /\ UNCHANGED notVersions

\* the method returns to its caller
VersionReturn(c) ==
  /\ vcall[c].pc = "done"
  /\ vcall' = [vcall EXCEPT ![c] = Idle]
  /\ UNCHANGED <<clock, presets, versions>>
  /\ UNCHANGED notVersions

\* ---------------------------------------------------------------- list_versions
\* A file name is the sequence of its pieces: the letters of the preset's
\* name, "_v", the digits of the timestamp and ".json".  Python compares
\* strings by code point; no piece is the beginning of another and the
\* pieces start with different characters, so comparing piece by piece on
\* the first character compares the strings.
DigitChars == <<"0", "1", "2", "3", "4", "5", "6", "7", "8", "9">>

Digit(d) == DigitChars[d + 1]

\* the second of the minute at which the model's clock starts: the clock
\* runs over the change from one digit to two
FirstSecond == 9

\* the seconds written without the leading zero
StrftimeUnpadded(t) ==
  LET s == FirstSecond + t
  IN IF s < 10 THEN <<Digit(s)>> ELSE <<Digit(s \div 10), Digit(s % 10)>>

\* line 18: strftime("%Y%m%d_%H%M%S"), of which the model keeps the seconds
\* field %S (two digits, zero padded); the fields before it have the same
\* fixed width and do not change during a run
Strftime(t) ==
  LET s == FirstSecond + t
  IN <<Digit(s \div 10), Digit(s % 10)>>

\* line 19: the name of the snapshot as a string
FileName(v) == v.base \o <<"_v">> \o Strftime(v.stamp) \o <<".json">>

\* ord() of the first character of a piece
Ord(piece) ==
  CASE piece = ".json" -> 46
    [] piece = "_v" -> 95
    [] piece = "a" -> 97
    [] piece = "b" -> 98
    [] OTHER -> 48 + (CHOOSE d \in 0..9 : Digit(d) = piece)

\* s < t on Python strings
RECURSIVE StrLess(_, _)
StrLess(s, t) ==
  IF s = <<>> THEN t # <<>>
  ELSE IF t = <<>> THEN FALSE
  ELSE IF Head(s) = Head(t) THEN StrLess(Tail(s), Tail(t))
  ELSE Ord(Head(s)) < Ord(Head(t))

\* f.startswith(prefix)
StartsWith(f, prefix) ==
  /\ Len(prefix) <= Len(f)
  /\ SubSeq(f, 1, Len(prefix)) = prefix

\* os.listdir(version_dir)
ListDir(dir) == {FileName(v) : v \in {w \in DOMAIN dir : dir[w] # Absent}}

\* files.sort()
RECURSIVE SortFiles(_)
SortFiles(files) ==
  IF files = {} THEN <<>>
  ELSE LET first == CHOOSE f \in files : \A g \in files \ {f} : StrLess(f, g)
       IN <<first>> \o SortFiles(files \ {first})

\* lines 34-45, detail = False
ListVersions(dir, preset_base) ==
  SortFiles({f \in ListDir(dir) : StartsWith(f, Base(preset_base))})

\* no other caller is inside a method: the calls come one after the other
Alone(c) == \A d \in Callers \ {c} : vcall[d] = Idle

VersionStep(c) ==
  \/ SaveVersionIsFile(c)
  \/ SaveVersionExists(c)
  \/ SaveVersionCopy(c)
  \/ SaveVersionCopyFail(c)
  \/ SaveVersionGiveUp(c)
  \/ RestoreVersionIsFile(c)
  \/ RestoreVersionCopy(c)
  \/ RestoreVersionCopyFail(c)
  \/ RestoreVersionGiveUp(c)
  \/ VersionReturn(c)

\* the version store used by one caller at a time
VNext ==
  \/ Tick
  \/ EditPreset
  \/ \E c \in Callers : Alone(c) /\ SaveVersionCall(c)
  \/ \E c \in Callers : Alone(c) /\ RestoreVersionCall(c)
  \/ \E c \in Callers : VersionStep(c)

\* the steps of a save_version in progress
SaveVersionStep(c) ==
  \/ SaveVersionIsFile(c)
  \/ SaveVersionExists(c)
  \/ SaveVersionCopy(c)
  \/ SaveVersionCopyFail(c)
  \/ SaveVersionGiveUp(c)

\* the version directory as one caller's save_version calls fill it, for
\* list_versions to read
SnapshotNext ==
  \/ Tick
  \/ EditPreset
  \/ SaveVersionCall(1)
  \/ SaveVersionStep(1)
  \/ VersionReturn(1)

\* the version store used by two processes at once, each of which calls
\* save_version once; their steps interleave in any way
ConcurrentNext ==
  \/ Tick
  \/ EditPreset
  \/ \E c \in Callers : SaveVersionCall(c)
  \/ \E c \in Callers : SaveVersionStep(c)

\* ================================================================
\* The dependency analyzer (src/main/preset_dependency_analyzer.py).  Each
\* function is run with its call stack spelled out: a frame is one activation
\* of the recursive function, a set is iterated in any order, and a call
\* that would make the stack deeper than the interpreter allows raises
\* RecursionError.

Nodes == {"A", "B", "C"}

\* every dict whose keys are nodes and whose values are sets of nodes
DepMaps == UNION {[K -> SUBSET Nodes] : K \in SUBSET Nodes}

NoMap == [n \in {} |-> {}]

\* dep_map.get(node, set())
Get(m, node) == IF node \in DOMAIN m THEN m[node] ELSE {}

\* d[k] = v
Put(d, k, v) == [x \in DOMAIN d \cup {k} |-> IF x = k THEN v ELSE d[x]]

\* invert_dependencies(dep_map)
InvertDependencies(m) ==
  [t \in UNION {m[s] : s \in DOMAIN m} |-> {s \in DOMAIN m : t \in m[s]}]

ClosureOps == {"all_ancestors", "all_descendants"}

DepOps == ClosureOps \cup {"max_dependency_depth", "detect_cycles"}

\* the top-level loop `for n in dep_map` of max_dependency_depth and
\* detect_cycles, kept as the bottom frame
Top == "top"

\* an activation: its node, the nodes its loop has yet to take, and its
\* locals (the closure's set, visit's path argument, the deepest child so far)
Frame(node, todo, acc, path, best) ==
  [node |-> node, todo |-> todo, acc |-> acc, path |-> path, best |-> best]

NoResult == [kind |-> "none"]
Raised(e) == [kind |-> e]
Returns(v) == [kind |-> "value", value |-> v]

NoCall == [name |-> "none", node |-> Top]

\* the adjacency a closure follows: the inverse map for all_ancestors
Adjacency(m, name) == IF name = "all_ancestors" THEN InvertDependencies(m) ELSE m

DInit ==
  /\ dep_map = NoMap
  /\ dop = NoCall
  /\ stack = <<>>
  /\ memo = NoMap
  /\ visited = {}
  /\ cycles = {}
  /\ result = NoResult

top == stack[Len(stack)]

\* the stack with its top frame replaced
WithTop(f) == [stack EXCEPT ![Len(stack)] = f]

\* a function of the analyzer is called on some map, once in a run
DepCall ==
  /\ dop = NoCall
  /\ \E m \in DepMaps : \E o \in DepOps :
     \E n \in IF o \in ClosureOps THEN Nodes ELSE {Top} :
       /\ dep_map' = m
       /\ dop' = [name |-> o, node |-> n]
       /\ stack' = IF o \in ClosureOps
                     THEN <<Frame(n, Get(Adjacency(m, o), n), {}, <<>>, 0)>>
                     ELSE <<Frame(Top, DOMAIN m, {}, <<>>, 0)>>
  /\ memo' = NoMap
  /\ visited' = {}
  /\ cycles' = {}
  /\ result' = NoResult
  /\ UNCHANGED notDeps

\* ---------------------------------------------------------------- all_ancestors, all_descendants
\* lines 116-117 in the call for child c: the memo has it
ClosureMemoHit ==
  /\ dop.name \in ClosureOps /\ stack # <<>>
  /\ \E c \in top.todo :
       /\ c \in DOMAIN memo
       /\ stack' = WithTop([top EXCEPT !.todo = @ \ {c},
                                       !.acc = @ \cup {c} \cup memo[c]])
  /\ UNCHANGED <<dep_map, dop, memo, visited, cycles, result>>
  /\ UNCHANGED notDeps

\* lines 119-121: the recursive call for child c, which the memo has not
ClosureRecurse ==
  /\ dop.name \in ClosureOps /\ stack # <<>>
  /\ Len(stack) < MaxDepth
  /\ \E c \in top.todo :
       /\ c \notin DOMAIN memo
       /\ stack' = Append(WithTop([top EXCEPT !.todo = @ \ {c}, !.acc = @ \cup {c}]),
                          Frame(c, Get(Adjacency(dep_map, dop.name), c), {}, <<>>, 0))
  /\ UNCHANGED <<dep_map, dop, memo, visited, cycles, result>>
  /\ UNCHANGED notDeps

\* the recursive call exceeds the recursion limit
ClosureOverflow ==
  /\ dop.name \in ClosureOps /\ stack # <<>>
  /\ Len(stack) >= MaxDepth
  /\ \E c \in top.todo : c \notin DOMAIN memo
  /\ result' = Raised("RecursionError")
  /\ stack' = <<>>
  /\ UNCHANGED <<dep_map, dop, memo, visited, cycles>>
  /\ UNCHANGED notDeps

\* lines 122-123: the loop is over; memo[node] is set and the set returned
ClosureReturn ==
  /\ dop.name \in ClosureOps /\ stack # <<>>
  /\ top.todo = {}
  /\ memo' = Put(memo, top.node, top.acc)
  /\ IF Len(stack) = 1
       THEN /\ result' = Returns(top.acc)
            /\ stack' = <<>>
       ELSE /\ result' = result
            /\ stack' = [SubSeq(stack, 1, Len(stack) - 1) EXCEPT
                           ![Len(stack) - 1].acc = @ \cup top.acc]
  /\ UNCHANGED <<dep_map, dop, visited, cycles>>
  /\ UNCHANGED notDeps

\* ---------------------------------------------------------------- max_dependency_depth
\* the children the generator of line 83 yields for a node
DepthChildren(m, node) == Get(m, node) \ {node}

\* lines 77-78 in the call depth(c): the memo has it
DepthMemoHit ==
  /\ dop.name = "max_dependency_depth" /\ stack # <<>>
  /\ \E c \in top.todo :
       /\ c \in DOMAIN memo
       /\ stack' = WithTop([top EXCEPT !.todo = @ \ {c}, !.best = Max(@, memo[c])])
  /\ UNCHANGED <<dep_map, dop, memo, visited, cycles, result>>
  /\ UNCHANGED notDeps

\* lines 79-82 in the call depth(c): c has no children
DepthLeaf ==
  /\ dop.name = "max_dependency_depth" /\ stack # <<>>
  /\ \E c \in top.todo :
       /\ c \notin DOMAIN memo
       /\ Get(dep_map, c) = {}
       /\ memo' = Put(memo, c, 1)
       /\ stack' = WithTop([top EXCEPT !.todo = @ \ {c}, !.best = Max(@, 1)])
  /\ UNCHANGED <<dep_map, dop, visited, cycles, result>>
  /\ UNCHANGED notDeps

\* line 83 in the call depth(c): c's only child is c, the generator yields
\* nothing and max() raises ValueError
DepthValueError ==
  /\ dop.name = "max_dependency_depth" /\ stack # <<>>
  /\ \E c \in top.todo :
       /\ c \notin DOMAIN memo
       /\ Get(dep_map, c) # {}
       /\ DepthChildren(dep_map, c) = {}
  /\ result' = Raised("ValueError")
  /\ stack' = <<>>
  /\ UNCHANGED <<dep_map, dop, memo, visited, cycles>>
  /\ UNCHANGED notDeps

\* line 83: the call depth(c) goes on to its own children
DepthRecurse ==
  /\ dop.name = "max_dependency_depth" /\ stack # <<>>
  /\ Len(stack) < MaxDepth
  /\ \E c \in top.todo :
       /\ c \notin DOMAIN memo
       /\ DepthChildren(dep_map, c) # {}
       /\ stack' = Append(WithTop([top EXCEPT !.todo = @ \ {c}]),
                          Frame(c, DepthChildren(dep_map, c), {}, <<>>, 0))
  /\ UNCHANGED <<dep_map, dop, memo, visited, cycles, result>>
  /\ UNCHANGED notDeps

\* the recursive call exceeds the recursion limit
DepthOverflow ==
  /\ dop.name = "max_dependency_depth" /\ stack # <<>>
  /\ Len(stack) >= MaxDepth
  /\ \E c \in top.todo :
       /\ c \notin DOMAIN memo
       /\ DepthChildren(dep_map, c) # {}
  /\ result' = Raised("RecursionError")
  /\ stack' = <<>>
  /\ UNCHANGED <<dep_map, dop, memo, visited, cycles>>
  /\ UNCHANGED notDeps

\* lines 83-85: d = 1 + max(...), memo[node] = d; line 86 for the top-level max
DepthReturn ==
  /\ dop.name = "max_dependency_depth" /\ stack # <<>>
  /\ top.todo = {}
  /\ IF Len(stack) = 1
       THEN /\ result' = Returns(top.best)
            /\ stack' = <<>>
            /\ memo' = memo
       ELSE /\ result' = result
            /\ memo' = Put(memo, top.node, 1 + top.best)
            /\ stack' = [SubSeq(stack, 1, Len(stack) - 1) EXCEPT
                           ![Len(stack) - 1].best = Max(@, 1 + top.best)]
  /\ UNCHANGED <<dep_map, dop, visited, cycles>>
  /\ UNCHANGED notDeps

\* ---------------------------------------------------------------- detect_cycles
\* the path a frame passes to visit: [] at the top level, path + [node] below
ChildPath(f) == IF f.node = Top THEN <<>> ELSE Append(f.path, f.node)

InPath(node, path) == \E i \in 1..Len(path) : path[i] = node

\* path.index(node), counted from 1
PathIndex(node, path) == CHOOSE i \in 1..Len(path) :
                           path[i] = node /\ \A j \in 1..(i - 1) : path[j] # node

\* tuple(path[path.index(node):] + [node])
CycleTuple(node, path) ==
  Append(SubSeq(path, PathIndex(node, path), Len(path)), node)

\* lines 64-65 tested before lines 60-63: a visited node ends the visit even
\* when it is on the path
CycleSeenFirst ==
  /\ dop.name = "detect_cycles" /\ stack # <<>>
  /\ \E c \in top.todo :
       /\ c \in visited
       /\ stack' = WithTop([top EXCEPT !.todo = @ \ {c}])
  /\ UNCHANGED <<dep_map, dop, memo, visited, cycles, result>>
  /\ UNCHANGED notDeps

\* lines 60-63 in the call visit(c, path): c is on the path
CycleFound ==
  /\ dop.name = "detect_cycles" /\ stack # <<>>
  /\ \E c \in top.todo :
       /\ InPath(c, ChildPath(top))
       /\ cycles' = cycles \cup {CycleTuple(c, ChildPath(top))}
       /\ stack' = WithTop([top EXCEPT !.todo = @ \ {c}])
  /\ UNCHANGED <<dep_map, dop, memo, visited, result>>
  /\ UNCHANGED notDeps

\* lines 64-65 in the call visit(c, path): c was visited before
CycleSeen ==
  /\ dop.name = "detect_cycles" /\ stack # <<>>
  /\ \E c \in top.todo :
       /\ ~InPath(c, ChildPath(top))
       /\ c \in visited
       /\ stack' = WithTop([top EXCEPT !.todo = @ \ {c}])
  /\ UNCHANGED <<dep_map, dop, memo, visited, cycles, result>>
  /\ UNCHANGED notDeps

\* lines 66-68: c is marked and its neighbours are visited; the path holds
\* no node twice, so the stack stays within the recursion limit
CycleVisit ==
  /\ dop.name = "detect_cycles" /\ stack # <<>>
  /\ \E c \in top.todo :
       /\ ~InPath(c, ChildPath(top))
       /\ c \notin visited
       /\ visited' = visited \cup {c}
       /\ stack' = Append(WithTop([top EXCEPT !.todo = @ \ {c}]),
                          Frame(c, Get(dep_map, c), {}, ChildPath(top), 0))
  /\ UNCHANGED <<dep_map, dop, memo, cycles, result>>
  /\ UNCHANGED notDeps

\* the loop of a visit is over; line 71 for the top-level loop
CycleReturn ==
  /\ dop.name = "detect_cycles" /\ stack # <<>>
  /\ top.todo = {}
  /\ stack' = SubSeq(stack, 1, Len(stack) - 1)
  /\ result' = IF Len(stack) = 1 THEN Returns(cycles) ELSE result
  /\ UNCHANGED <<dep_map, dop, memo, visited, cycles>>
  /\ UNCHANGED notDeps

DNext ==
  \/ DepCall
  \/ ClosureMemoHit
  \/ ClosureRecurse
  \/ ClosureOverflow
  \/ ClosureReturn
  \/ DepthMemoHit
  \/ DepthLeaf
  \/ DepthValueError
  \/ DepthRecurse
  \/ DepthOverflow
  \/ DepthReturn
  \/ CycleFound
  \/ CycleSeen
  \/ CycleVisit
  \/ CycleReturn

\* ================================================================
\* The flat key-level diff: diff_dict of the history tool
\* (src/main/preset_history_diff_and_rollback.py), diff_versions of the version
\* store (src/main/preset_version_manager.py) and diff_presets of
\* src/main/avatar_preset_diff.py and src/main/preset_diff_reporter.py.

Keys == {"x", "y"}

\* the keys in the order sorted() gives them
KeyOrder == <<"x", "y">>

\* the scalars a preset holds, as they are printed; None is JSON null
JsonValues == {"1", "2", "3", None}

\* every dict from keys to scalars
Presets == UNION {[K -> JsonValues] : K \in SUBSET Keys}

\* d.get(k)
DictGet(d, k) == IF k \in DOMAIN d THEN d[k] ELSE None

\* the keys both dicts have
KeysInBoth(a, b) == DOMAIN a \cap DOMAIN b

\* set(d1.keys()) | set(d2.keys())
KeysOf(a, b) == DOMAIN a \cup DOMAIN b

\* sorted(keys)
Sorted(S) == SelectSeq(KeyOrder, LAMBDA k : k \in S)

\* f"{k}: {v1} -> {v2}"
DiffLine(k, v1, v2) == <<k, ": ", v1, " -> ", v2>>

RECURSIVE DiffDictLoop(_, _, _, _)
\* the loop of diff_dict over the keys left, diffs so far given
DiffDictLoop(ks, a, b, out_lines) ==
  IF ks = <<>> THEN out_lines
  ELSE LET k == Head(ks)
           v1 == DictGet(a, k)
           v2 == DictGet(b, k)
       IN DiffDictLoop(Tail(ks), a, b,
                       IF v1 # v2 THEN Append(out_lines, DiffLine(k, v1, v2))
                       ELSE out_lines)

DiffDict(a, b) == DiffDictLoop(Sorted(KeysOf(a, b)), a, b, <<>>)

\* diff_presets of avatar_preset_diff.py and of preset_diff_reporter.py, and
\* the dict diff_versions builds
DiffPresets(a, b) ==
  [k \in {x \in KeysOf(a, b) : DictGet(a, x) # DictGet(b, x)} |->
     [A |-> DictGet(a, k), B |-> DictGet(b, k)]]

NoDifference == [kind |-> "text", value |-> "No difference between versions."]

\* what diff_versions prints for two versions it has loaded
DiffVersions(a, b) ==
  IF DOMAIN DiffPresets(a, b) # {} THEN Written(DiffPresets(a, b)) ELSE NoDifference

FInit ==
  /\ tool = "none"
  /\ d1 = NoMap
  /\ d2 = NoMap
  /\ diffs = <<>>

DiffDictCall ==
  /\ tool = "none"
  /\ \E a \in Presets : \E b \in Presets :
       d1' = a /\ d2' = b /\ diffs' = DiffDict(a, b)
  /\ tool' = "diff_dict"
  /\ UNCHANGED notDiff

DiffVersionsCall ==
  /\ tool = "none"
  /\ \E a \in Presets : \E b \in Presets :
       d1' = a /\ d2' = b /\ diffs' = DiffVersions(a, b)
  /\ tool' = "diff_versions"
  /\ UNCHANGED notDiff

AvatarDiffPresetsCall ==
  /\ tool = "none"
  /\ \E a \in Presets : \E b \in Presets :
       d1' = a /\ d2' = b /\ diffs' = DiffPresets(a, b)
  /\ tool' = "avatar_preset_diff.diff_presets"
  /\ UNCHANGED notDiff

ReporterDiffPresetsCall ==
  /\ tool = "none"
  /\ \E a \in Presets : \E b \in Presets :
       d1' = a /\ d2' = b /\ diffs' = DiffPresets(a, b)
  /\ tool' = "preset_diff_reporter.diff_presets"
  /\ UNCHANGED notDiff

FNext ==
  \/ DiffDictCall
  \/ DiffVersionsCall
  \/ AvatarDiffPresetsCall
  \/ ReporterDiffPresetsCall

\* ================================================================
\* The batch analysis (src/main/preset_dependency_analyzer.py):
\* analyze_all_dependencies over a preset directory, and
\* find_isolated_presets.  A node of the dependency map and the file that
\* holds it have one name.

\* JSON values, each with its Python type
Str(s) == [type |-> "str", s |-> s]
Number == [type |-> "int"]
List(items) == [type |-> "list", items |-> items]
Dict(members) == [type |-> "dict", members |-> members]

\* the names os.listdir may return: those ending in '.json', one per node,
\* and one that does not
OtherNames == {"notes.txt"}
DirNames == Nodes \cup OtherNames

\* line 22: f.endswith('.json')
EndsWithJson(f) == f \in Nodes

\* what a preset file may hold: bytes that are no JSON, JSON that is no
\* dict, and dicts with and without dependency keys
PresetContents ==
  { Corrupt,
    Written(List(<<>>)),
    Written(Dict(NoMap)),
    Written(Dict("base_preset" :> Str("A"))),
    Written(Dict("base_preset" :> Str("B"))),
    Written(Dict("inherits" :> List(<<Str("B"), Number, Str("C")>>))),
    Written(Dict("reference" :> Number)),
    Written(Dict(("name" :> Str("B")) @@ ("base_preset" :> Str("A"))
                   @@ ("reference" :> List(<<Str("C")>>)))) }

Directories ==
  {dir \in [DirNames -> PresetContents \cup {Absent}] :
     \A f \in OtherNames : dir[f] \in {Absent, Corrupt}}

\* lines 6-7: the default dependency_keys
DependencyKeys == {"base_preset", "inherits", "reference"}

\* lines 11-14: what one value adds to deps
DepsOf(val) ==
  IF val.type = "str" THEN {val.s}
  ELSE IF val.type = "list"
    THEN {val.items[i].s : i \in {j \in 1..Len(val.items) : val.items[j].type = "str"}}
  ELSE {}

\* collect_dependencies(preset) for a dict
CollectDependencies(preset) ==
  UNION {DepsOf(preset.members[key]) :
           key \in DependencyKeys \cap DOMAIN preset.members}

\* lines 26-28 raise nothing: the file is JSON (json.load) and a dict (.get)
Loads(content) ==
  /\ content.kind = "json"
  /\ content.value.type = "dict"

\* find_isolated_presets without the subtraction of the keys
FindUnreferencedPresets(m, all_files) ==
  LET referenced == UNION {m[k] : k \in DOMAIN m}
  IN all_files \ referenced

\* find_isolated_presets(dep_map, all_files)
FindIsolatedPresets(m, all_files) ==
  LET referenced == UNION {m[k] : k \in DOMAIN m}
  IN (all_files \ referenced) \ DOMAIN m

\* analyze_all_dependencies in progress: its position, retry, the files the
\* outer loop has yet to take, the file and attempt of the inner loop, how
\* often each file has been opened, and result
AnalyzeRec(at, r, todo, f, attempt, tried, res) ==
  [pc |-> at, retry |-> r, todo |-> todo, fname |-> f, attempt |-> attempt,
   tried |-> tried, result |-> res]

\* no call is in progress, there are no locals
NotAnalyzing == [pc |-> "idle"]

\* a call of find_isolated_presets: its arguments and what it returned
IsolatedRec(called, m, all_files, v) ==
  [called |-> called, dep_map |-> m, all_files |-> all_files, value |-> v]

NoIsolated == [called |-> FALSE]

AInit ==
  /\ preset_dir = NoMap
  /\ acall = NotAnalyzing
  /\ report = NoResult
  /\ isolated = NoIsolated

NothingCalled == acall = NotAnalyzing /\ report = NoResult /\ isolated = NoIsolated

\* find_isolated_presets is called on some map and some set of files
FindIsolatedPresetsCall ==
  /\ NothingCalled
  /\ \E m \in DepMaps : \E all_files \in SUBSET Nodes :
       isolated' = IsolatedRec(TRUE, m, all_files, FindIsolatedPresets(m, all_files))
  /\ UNCHANGED <<preset_dir, acall, report>>
  /\ UNCHANGED notAnalysis

\* lines 20-23: analyze_all_dependencies is called on some directory
AnalyzeAllDependenciesCall ==
  /\ NothingCalled
  /\ \E dir \in Directories : \E r \in Retries :
       /\ preset_dir' = dir
       /\ acall' = AnalyzeRec("files", r,
                     {f \in DirNames : dir[f] # Absent /\ EndsWithJson(f)},
                     None, 0, [f \in DirNames |-> 0], NoMap)
  /\ UNCHANGED <<report, isolated>>
  /\ UNCHANGED notAnalysis

\* line 24: the outer loop takes the next file, in the order of os.listdir
AnalyzeNextFile ==
  /\ acall.pc = "files"
  /\ \E f \in acall.todo :
       acall' = [acall EXCEPT !.pc = "try", !.fname = f, !.attempt = 0,
                              !.todo = acall.todo \ {f}]
  /\ UNCHANGED <<preset_dir, report, isolated>>
  /\ UNCHANGED notAnalysis

\* lines 25-32: an attempt loads the file; its dependencies are kept if
\* there are any, and the inner loop is left
AnalyzeLoad ==
  /\ acall.pc = "try"
  /\ acall.attempt < acall.retry
  /\ Loads(preset_dir[acall.fname])
  /\ LET deps == CollectDependencies(preset_dir[acall.fname].value)
     IN acall' = [acall EXCEPT
                    !.pc = "files",
                    !.tried = [acall.tried EXCEPT ![acall.fname] = @ + 1],
                    !.result = IF deps # {} THEN Put(acall.result, acall.fname, deps)
                               ELSE acall.result]
  /\ UNCHANGED <<preset_dir, report, isolated>>
  /\ UNCHANGED notAnalysis

\* lines 33-35 without the except clause: the exception leaves the function
AnalyzeLoadFailRaising ==
  /\ acall.pc = "try"
  /\ acall.attempt < acall.retry
  /\ ~Loads(preset_dir[acall.fname])
  /\ acall' = [acall EXCEPT
                 !.pc = "done",
                 !.tried = [acall.tried EXCEPT ![acall.fname] = @ + 1]]
  /\ report' = Raised("Exception")
  /\ UNCHANGED <<preset_dir, isolated>>
  /\ UNCHANGED notAnalysis

\* lines 33-35: an attempt raises, the warning is logged and the next
\* attempt follows
AnalyzeLoadFail ==
  /\ acall.pc = "try"
  /\ acall.attempt < acall.retry
  /\ ~Loads(preset_dir[acall.fname])
  /\ acall' = [acall EXCEPT
                 !.attempt = @ + 1,
                 !.tried = [acall.tried EXCEPT ![acall.fname] = @ + 1]]
  /\ UNCHANGED <<preset_dir, report, isolated>>
  /\ UNCHANGED notAnalysis

\* line 25: range(retry) is used up without a break
AnalyzeExhausted ==
  /\ acall.pc = "try"
  /\ acall.attempt >= acall.retry
  /\ acall' = [acall EXCEPT !.pc = "files"]
  /\ UNCHANGED <<preset_dir, report, isolated>>
  /\ UNCHANGED notAnalysis

\* line 38: the outer loop is over
AnalyzeReturn ==
  /\ acall.pc = "files"
  /\ acall.todo = {}
  /\ acall' = [acall EXCEPT !.pc = "done"]
  /\ report' = Returns(acall.result)
  /\ UNCHANGED <<preset_dir, isolated>>
  /\ UNCHANGED notAnalysis

ANext ==
  \/ FindIsolatedPresetsCall
  \/ AnalyzeAllDependenciesCall
  \/ AnalyzeNextFile
  \/ AnalyzeLoad
  \/ AnalyzeLoadFail
  \/ AnalyzeExhausted
  \/ AnalyzeReturn

\* ================================================================
\* specifications: one tool is run, the files of the others stay as they are

\* no manager is running: its files are missing and no thread calls it
ManagerUnused == Init /\ primary = Absent /\ max_history = 0

\* the tools that are not run have no files yet
ManagerStart == Init /\ HInit /\ VInit /\ DInit /\ FInit /\ AInit

Spec == ManagerStart /\ [][Next]_vars

\* a thread that can take a step of its call is scheduled, and a thread
\* waiting for the lock gets it if it is free again and again
Fairness ==
  \A t \in Threads :
     WF_vars(Step(t)) /\ SF_vars(Acquire(t) \/ SaveAcquire(t))

\* the runs of a process that is never killed, under a fair scheduler
FairSpec == ManagerStart /\ [][Run]_vars /\ Fairness

HistoryStart == ManagerUnused /\ HInit /\ VInit /\ DInit /\ FInit /\ AInit

HistorySpec == HistoryStart /\ [][HNext]_hvars

VersionStart == ManagerUnused /\ HInit /\ VInit /\ DInit /\ FInit /\ AInit

VersionSpec == VersionStart /\ [][VNext]_vvars

SnapshotStart == ManagerUnused /\ HInit /\ VInit /\ DInit /\ FInit /\ AInit

SnapshotSpec == SnapshotStart /\ [][SnapshotNext]_vvars

ConcurrentStart == ManagerUnused /\ HInit /\ VInit /\ DInit /\ FInit /\ AInit

ConcurrentVersionSpec == ConcurrentStart /\ [][ConcurrentNext]_vvars

DependencyStart == ManagerUnused /\ HInit /\ VInit /\ DInit /\ FInit /\ AInit

DependencySpec == DependencyStart /\ [][DNext]_dvars

DiffStart == ManagerUnused /\ HInit /\ VInit /\ DInit /\ FInit /\ AInit

DiffSpec == DiffStart /\ [][FNext]_fvars

AnalysisStart == ManagerUnused /\ HInit /\ VInit /\ DInit /\ FInit /\ AInit

AnalysisSpec == AnalysisStart /\ [][ANext]_avars

\* ---------------------------------------------------------------- claims

\* C1: no call of add_state, undo or redo blocks forever on the manager's own
\* lock: no thread ever waits for self.lock while it is itself the holder (the
\* lock has no other way to become free, so such a wait never ends).
C1_NoCallBlocksOnOwnLock ==
  \A t \in Threads : ~(pc[t] \in {"lock", "save_lock"} /\ lock = t)

\* positions strictly inside add_state's update (lines 62-65)
InUpdate(t) == pc[t] \in {"add_bound", "add_index"}

\* C2: between updates, a non-empty history has 0 <= index < len(history) and
\* an empty history has index = -1.
C2_IndexInRange ==
  (\A t \in Threads : ~InUpdate(t)) =>
     IF history = <<>> THEN index = -1
     ELSE index >= 0 /\ index < Len(history)

\* an undo has moved the pointer of a two-entry history down to 0
C2_Witness ==
  \E t \in Threads :
     op[t] = "undo" /\ pc[t] = "save_lock" /\ Len(history) = 2 /\ index = 0

\* C3: after add_state's update the history holds at most max_history entries,
\* for every max_history >= 0.
C3_LenWithinMaxHistory ==
  \A t \in Threads :
     (op[t] = "add_state" /\ pc[t] = "save_lock") => Len(history) <= max_history

\* thread u has issued op o and waits for the lock behind thread t's call
WaitsBehind(u, o, t) == u # t /\ op[u] = o /\ pc[u] = "lock" /\ lock = t

\* thread t's call of o has returned v
Returned(t, o, v) == op[t] = o /\ pc[t] = "idle" /\ ret[t] = v

\* a generation with a redo branch: entries after the current one
HasRedoBranch(g) == g.index < Len(g.history) - 1

\* C4: add_state(s) entered at (h, i) with entries after i leaves
\* history = h[0..i] followed by s, with s the current state
\* (index = len(history)-1), and the redo issued right after it returns None.
C4_PruneThenRedoNone ==
  \A t \in Threads : \A u \in Threads \ {t} :
  \A g \in {x \in Generations : HasRedoBranch(x)} :
     (/\ op[t] = "add_state" /\ pc[t] = "add_trunc"
      /\ history = g.history /\ index = g.index
      /\ WaitsBehind(u, "redo", t))
     ~> (/\ \E s \in States :
              history = Append(SubSeq(g.history, 1, g.index + 1), s)
         /\ index = Len(history) - 1
         /\ Returned(u, "redo", None))

\* C5: when undo moves the pointer down from i, where the current state is s,
\* the redo issued right after it returns s and leaves index = i again, the
\* history being the same.
C5_RedoAfterUndoRoundTrip ==
  \A t \in Threads : \A u \in Threads \ {t} : \A g \in {x \in Generations : x.index > 0} :
     (/\ op[t] = "undo" /\ pc[t] = "undo"
      /\ history = g.history /\ index = g.index
      /\ WaitsBehind(u, "redo", t))
     ~> (/\ history = g.history /\ index = g.index
         /\ Returned(u, "redo", g.history[g.index + 1]))

\* C7: an undo called with index > 0 returns the entry at the new index, an
\* entry added earlier; an undo called with index <= 0 returns None.
C7_UndoReturnsAddedState ==
  \A t \in Threads :
     /\ (op[t] = "undo" /\ pc[t] = "undo" /\ index > 0)
          ~> (/\ index >= 0 /\ index < Len(history)
              /\ Returned(t, "undo", history[index + 1]))
     /\ (op[t] = "undo" /\ pc[t] = "undo" /\ index <= 0)
          ~> Returned(t, "undo", None)

\* C8: a mutating call (add_state, or an undo or redo that moves the pointer)
\* that has applied its update returns, and on its return the primary file
\* holds exactly the in-memory history and index.
C8_MutationPersisted ==
  \A t \in Threads :
     (op[t] \in {"add_state", "undo", "redo"} /\ pc[t] = "save_lock")
     ~> (pc[t] = "idle" /\ primary = Gen(history, index))

OneFileValid == IsGen(primary) \/ IsGen(bak)

\* a file holds a complete generation with entries in its history
HasEntries(f) == IsGen(f) /\ f.history # <<>>

\* no save is about to truncate the primary file after a copy that raised
NoFailedCopy == \A t \in Threads : pc[t] = "save_open" => bak = primary

\* C9: once the primary file or the sidecar holds a complete generation with
\* entries, every later step of a save, a crash or a reload (copies that raise
\* set aside) leaves at least one of the two files holding a complete
\* generation, so that no reload starts empty for want of a usable file.
C9_OneFileAlwaysValid ==
  [][((HasEntries(primary) \/ HasEntries(bak)) /\ NoFailedCopy) => OneFileValid']_vars

\* no call has been issued on the manager since its construction
JustConstructed == \A t \in Threads : op[t] = "none"

\* C10: a manager constructed on an unparseable primary file starts from the
\* sidecar's history and index when the sidecar is a valid generation, and
\* from the empty history with index -1 when it is unparseable or missing.
C10_LoadFallback ==
  (JustConstructed /\ primary = Corrupt) =>
     IF IsGen(bak) THEN history = bak.history /\ index = bak.index
     ELSE history = <<>> /\ index = -1

\* a manager has been constructed on an unparseable primary file beside a
\* sidecar with entries, and holds the sidecar's generation
C10_Witness ==
  /\ JustConstructed /\ primary = Corrupt /\ IsGen(bak)
  /\ bak.history # <<>> /\ history = bak.history /\ index = bak.index

\* thread t is inside a with self.lock block: in the body of add_state, undo
\* or redo (the nested _save included) or in the body of a _save called alone
InBody(t) ==
  /\ pc[t] \notin {"idle", "lock"}
  /\ ~(pc[t] = "save_lock" /\ op[t] = "_save")

\* C11: the bodies of add_state, undo, redo and _save of different threads
\* never interleave: a thread inside a body holds the lock and no other thread
\* is inside one, so no thread reads or writes history and index while another
\* has truncated the history and not yet appended to it, and the updates take
\* effect one call after the other.
C11_BodiesNeverInterleave ==
  \A t \in Threads :
     InBody(t) => (lock = t /\ \A u \in Threads \ {t} : ~InBody(u))

\* a thread has truncated a redo branch and not yet appended, while another
\* thread's undo waits for the lock
C11_Witness ==
  \E t \in Threads : \E u \in Threads \ {t} :
     /\ op[t] = "add_state" /\ pc[t] = "add_append" /\ lock = t
     /\ IsGen(primary) /\ Len(history) < Len(primary.history)
     /\ op[u] = "undo" /\ pc[u] = "lock"

\* C12: the log is append-only: every change of the file adds exactly one line
\* at its end and leaves the earlier lines as they were, and after a
\* record_change iter_history() yields what it yielded before followed by the
\* new entry, whatever the timestamps are (so n calls yield their n entries in
\* call order).
C12_LogAppendOnly ==
  [][log' # log =>
       \E line \in Lines :
          /\ log' = Append(log, line)
          /\ IterHistory(log', None) =
               IF line = Blank THEN IterHistory(log, None)
               ELSE Append(IterHistory(log, None), line)
  ]_hvars

\* two entries recorded one after the other, the second stamped earlier
C12_Witness ==
  /\ Len(log) = 2 /\ log[1] # Blank /\ log[2] # Blank
  /\ log[2].timestamp < log[1].timestamp
  /\ IterHistory(log, None) = log

\* the entries of preset p stamped exactly at the start of second s
StampedAt(p, s) ==
  SelectSeq(IterHistory(log, p), LAMBDA e : e.timestamp = Timestamp(s))

\* entry e of es is as close to second s as any entry of es
ClosestTo(e, es, s) ==
  \A j \in 1..Len(es) :
     Abs(e.timestamp - Timestamp(s)) <= Abs(es[j].timestamp - Timestamp(s))

\* C15 (as the code has it): a rollback of preset P reports "not found" and
\* writes no output file exactly when the log holds no entry of P at all; when
\* it holds some, the rollback exports the `after` of an entry closest to the
\* target time, whether or not an entry is stamped at that time.
C15_NotFoundOnlyWithoutEntries ==
  [][LET es == IterHistory(log, msg'.preset)
     IN /\ msg'.kind = "not_found" => (es = <<>> /\ out' = out)
        /\ msg'.kind = "rolled_back" =>
             \E i \in 1..Len(es) :
                /\ ClosestTo(es[i], es, msg'.time)
                /\ out'[msg'.preset] = Written(es[i].after)
  ]_hvars

\* a rollback to a second at which no entry of the preset is stamped has
\* exported the preset's only entry
C15_Witness ==
  /\ msg.kind = "rolled_back"
  /\ StampedAt(msg.preset, msg.time) = <<>>
  /\ Len(IterHistory(log, msg.preset)) = 1
  /\ out[msg.preset] = Written(IterHistory(log, msg.preset)[1].after)

\* C15 (as claimed): a rollback of P to a time at which no entry of P is
\* stamped reports "not found" and writes no output file.
C15_NotFoundWithoutExactEntry ==
  [][(msg'.kind \in {"not_found", "rolled_back"}
        /\ StampedAt(msg'.preset, msg'.time) = <<>>)
       => (msg'.kind = "not_found" /\ out' = out)
  ]_hvars

\* C16: a rollback writes the `after` of the entry it resolved to the output
\* file as it is and leaves the log as it was: no line is appended, changed or
\* removed, and iter_history yields the same sequence before and after.
C16_RollbackOnlyExports ==
  [][msg'.kind \in {"not_found", "rolled_back"} =>
       /\ log' = log
       /\ IterHistory(log', None) = IterHistory(log, None)
       /\ msg'.kind = "rolled_back" =>
            out'[msg'.preset] =
              Written(FindEntryByTime(IterHistory(log, msg'.preset), msg'.time).after)
  ]_hvars

\* a rollback has exported an entry of a log with two entries of the preset
\* whose snapshots differ
C16_Witness ==
  /\ msg.kind = "rolled_back"
  /\ Len(IterHistory(log, msg.preset)) = 2
  /\ IterHistory(log, msg.preset)[1].after # IterHistory(log, msg.preset)[2].after
  /\ out[msg.preset] = Written(IterHistory(log, msg.preset)[2].after)

C14_RestoreVersion ==
  [][\A c \in Callers :
       (vcall[c].op = "restore_version" /\ vcall'[c] # vcall[c]) =>
          /\ (vcall[c].pc = "isfile" /\ versions[vcall[c].version] = Absent)
               => (/\ vcall'[c].pc = "done" /\ vcall'[c].said = "not_found"
                   /\ presets' = presets /\ versions' = versions)
          /\ vcall'[c].said = "restored"
               => (/\ versions[vcall[c].version] # Absent
                   /\ presets'[vcall[c].preset] = versions[vcall[c].version]
                   /\ versions' = versions)
  ]_vvars

\* a preset file changed after its snapshot was taken has been restored from it
C14_Witness ==
  \E c \in Callers :
     /\ vcall[c].op = "restore_version" /\ vcall[c].said = "restored"
     /\ presets[vcall[c].preset] = versions[vcall[c].version]
     /\ \E n \in PresetFiles \ {vcall[c].preset} :
           presets[n] # Absent /\ presets[n] # presets[vcall[c].preset]

\* C17: all_ancestors(dep_map, node) and all_descendants(dep_map, node) end
\* by returning a set for every map and node, maps with cycles and self-loops
\* included: no call ends in RecursionError.
C17_ClosureTerminates ==
  dop.name \in ClosureOps => result # Raised("RecursionError")

\* C18: max_dependency_depth ends by returning a depth for every map, maps
\* with cycles and with nodes whose only dependency is themselves included:
\* no call ends in RecursionError or ValueError.
C18_DepthTerminates ==
  dop.name = "max_dependency_depth" =>
     result \notin {Raised("RecursionError"), Raised("ValueError")}

\* the nodes one edge away from a node of S
Successors(m, S) == UNION {Get(m, x) : x \in S}

RECURSIVE ReachIn(_, _, _)
\* S and the nodes at most k edges away from it
ReachIn(m, S, k) ==
  IF k = 0 THEN S ELSE ReachIn(m, S \cup Successors(m, S), k - 1)

\* the nodes one or more edges away from n
ReachableFrom(m, n) == ReachIn(m, Get(m, n), Cardinality(Nodes))

\* the map has a directed cycle, a self-loop being one
HasCycle(m) == \E n \in Nodes : n \in ReachableFrom(m, n)

\* the tuple starts and ends at one node and each consecutive pair is an edge
GenuineCycle(m, c) ==
  /\ Len(c) >= 2 /\ c[1] = c[Len(c)]
  /\ \A i \in 1..(Len(c) - 1) : c[i + 1] \in Get(m, c[i])

Triangle == [n \in Nodes |-> IF n = "A" THEN {"B"} ELSE IF n = "B" THEN {"C"} ELSE {"A"}]

\* C19: whatever the order in which nodes and neighbours are taken,
\* detect_cycles returns a non-empty set exactly when the map has a directed
\* cycle (self-loops included), every tuple returned is a genuine cycle of the
\* map, and for A->B, B->C, C->A a returned cycle holds A, B and C.
C19_DetectCycles ==
  (dop.name = "detect_cycles" /\ result # NoResult) =>
     /\ result.kind = "value"
     /\ (result.value # {}) <=> HasCycle(dep_map)
     /\ \A c \in result.value : GenuineCycle(dep_map, c)
     /\ dep_map = Triangle =>
          \E c \in result.value : {c[i] : i \in 1..Len(c)} = {"A", "B", "C"}

\* detect_cycles has returned one cycle for a map with a self-loop at C and
\* the cycle A->B->A, having started at C
C19_Witness ==
  /\ dop.name = "detect_cycles" /\ result # NoResult
  /\ dep_map = [n \in Nodes |-> IF n = "A" THEN {"B"} ELSE IF n = "B" THEN {"A", "C"} ELSE {"C"}]
  /\ <<"C", "C">> \in result.value
  /\ Cardinality(result.value) = 2

\* the keys at which the two dicts differ
Changed(a, b) == {k \in DOMAIN a \cup DOMAIN b : DictGet(a, k) # DictGet(b, k)}

\* entry k of a diff dict holds the A-side and B-side values of key k
SidesOf(d, k) == d[k] = [A |-> DictGet(d1, k), B |-> DictGet(d2, k)]

\* C20: diff_dict, diff_versions and both diff_presets report exactly the
\* keys k of keys(A) | keys(B) with A.get(k) != B.get(k), each with the A-side
\* and the B-side value (None for an absent key); identical dicts give an empty
\* diff or "No difference"; {"x": 1} against {"x": 2, "y": 3} gives x: 1 vs 2
\* and y: None vs 3; and diff_dict lists the keys in sorted order.
C20_FlatDiff ==
  /\ tool = "diff_dict" =>
       /\ {diffs[i][1] : i \in 1..Len(diffs)} = Changed(d1, d2)
       /\ \A i \in 1..Len(diffs) :
            diffs[i] = <<diffs[i][1], ": ", DictGet(d1, diffs[i][1]),
                         " -> ", DictGet(d2, diffs[i][1])>>
       /\ \A i \in 1..Len(diffs) : \A j \in (i + 1)..Len(diffs) :
            \E m \in 1..Len(KeyOrder) : \E n \in (m + 1)..Len(KeyOrder) :
               diffs[i][1] = KeyOrder[m] /\ diffs[j][1] = KeyOrder[n]
       /\ d1 = d2 => diffs = <<>>
       /\ (d1 = [k \in {"x"} |-> "1"] /\ d2 = [k \in {"x", "y"} |-> IF k = "x" THEN "2" ELSE "3"])
            => diffs = <<<<"x", ": ", "1", " -> ", "2">>, <<"y", ": ", None, " -> ", "3">>>>
  /\ tool \in {"avatar_preset_diff.diff_presets", "preset_diff_reporter.diff_presets"} =>
       /\ DOMAIN diffs = Changed(d1, d2)
       /\ \A k \in DOMAIN diffs : SidesOf(diffs, k)
       /\ d1 = d2 => DOMAIN diffs = {}
  /\ tool = "diff_versions" =>
       IF Changed(d1, d2) = {} THEN diffs = NoDifference
       ELSE /\ diffs.kind = "json"
            /\ DOMAIN diffs.value = Changed(d1, d2)
            /\ \A k \in DOMAIN diffs.value : SidesOf(diffs.value, k)

\* diff_dict has compared {"x": 1} with {"x": 2, "y": 3}
C20_Witness ==
  /\ tool = "diff_dict"
  /\ d1 = [k \in {"x"} |-> "1"]
  /\ d2 = [k \in {"x", "y"} |-> IF k = "x" THEN "2" ELSE "3"]
  /\ Len(diffs) = 2


\* ---------------------------------------------------------------- C21
\* the snapshots of preset n in the version directory, by the second of
\* their save
SnapshotSeconds(n) == {t \in Clock : versions[VersionName(n, t)] # Absent}

\* where a file name stands in a listing
Position(listing, f) == CHOOSE i \in 1..Len(listing) : listing[i] = f

\* C21: list_versions returns the file names in ascending lexicographic
\* order, and the snapshots that save_version wrote for one preset at
\* different seconds stand in it in the order of their saves.
C21_ListVersionsChronological ==
  \A n \in PresetFiles :
    LET listing == ListVersions(versions, n)
    IN /\ \A i, j \in 1..Len(listing) : i < j => StrLess(listing[i], listing[j])
       /\ \A t, u \in SnapshotSeconds(n) :
            t < u => Position(listing, FileName(VersionName(n, t)))
                       < Position(listing, FileName(VersionName(n, u)))

\* one preset has snapshots of two different seconds, the later of which
\* has one digit more than the earlier
C21_Witness ==
  \E n \in PresetFiles : \E t, u \in SnapshotSeconds(n) :
    /\ FirstSecond + t < 10
    /\ FirstSecond + u >= 10
    /\ Len(ListVersions(versions, n)) >= 2


\* ---------------------------------------------------------------- C22
\* the distance of entry e from the beginning of second s
Distance(e, s) == Abs(e.timestamp - Timestamp(s))

\* C22: find_entry_by_time returns no entry for an empty sequence, and
\* otherwise an entry whose distance from the target is minimal over all
\* entries given, the first such in the order of the sequence.
C22_FindEntryByTime ==
  \A p \in PresetNames \cup {None} : \A s \in Seconds :
    LET es == IterHistory(log, p)
        e == FindEntryByTime(es, s)
    IN /\ es = <<>> => e = NoEntry
       /\ es # <<>> =>
            \E i \in 1..Len(es) :
               /\ e = es[i]
               /\ \A j \in 1..Len(es) : Distance(es[i], s) <= Distance(es[j], s)
               /\ \A j \in 1..(i - 1) : Distance(es[i], s) < Distance(es[j], s)

\* a rollback between two entries of the preset, one before and one after
\* the target and equally far from it, has exported the first of them
C22_Witness ==
  /\ msg.kind = "rolled_back"
  /\ LET es == IterHistory(log, msg.preset)
     IN /\ Len(es) = 2
        /\ es[1].timestamp # es[2].timestamp
        /\ es[1].after # es[2].after
        /\ Distance(es[1], msg.time) = Distance(es[2], msg.time)
        /\ out[msg.preset] = Written(es[1].after)


\* ---------------------------------------------------------------- C23
\* the line numbers of file f that hold an entry the filter lets through
Selected(f, preset_name) ==
  {i \in 1..Len(f) :
     /\ f[i] # Blank
     /\ (preset_name = None \/ f[i].preset_name = preset_name)}

\* the k-th smallest member of a set of line numbers
Nth(I, k) == CHOOSE i \in I : Cardinality({j \in I : j <= i}) = k

\* sequence a is the beginning of sequence b
IsPrefix(a, b) == Len(a) <= Len(b) /\ SubSeq(b, 1, Len(a)) = a

\* C23: for every filter iter_history yields the entries of the log that the
\* filter lets through, each once, in the order of the file and without the
\* blank lines; while the log is not written to, a second iteration yields
\* what the first did; and after the log has grown the unfiltered iteration
\* begins with what it yielded before.
C23_IterHistory ==
  [][\A p \in PresetNames \cup {None} :
       LET I == Selected(log', p)
           now == IterHistory(log', p)
       IN /\ Len(now) = Cardinality(I)
          /\ \A k \in 1..Len(now) : now[k] = log'[Nth(I, k)]
          /\ log' = log => now = IterHistory(log, p)
          /\ IsPrefix(IterHistory(log, None), IterHistory(log', None))
  ]_hvars

\* the log holds a blank line and an entry of one preset: the filter of the
\* other preset yields nothing, the preset's own and no filter yield the entry
C23_Witness ==
  /\ Len(log) = 2
  /\ \E i \in 1..2 : log[i] = Blank
  /\ \E p, q \in PresetNames :
       /\ Len(IterHistory(log, p)) = 1
       /\ IterHistory(log, q) = <<>>
       /\ IterHistory(log, None) = IterHistory(log, p)


\* ---------------------------------------------------------------- C24
\* what a method prints when a copy succeeded, and when none did
Success(o) == IF o = "save_version" THEN "saved" ELSE "restored"
Failure(o) == IF o = "save_version" THEN "could_not_save" ELSE "could_not_restore"

\* C24: in the retry loop of save_version and restore_version, i attempts
\* having failed, the next step is one of three: attempt i + 1 <= retry
\* succeeds and the method is over; attempt i + 1 <= retry fails and the
\* loop goes on with one attempt less to make; or i = retry (also 0) and the
\* method reports the failure and is over.  A method that is over returns
\* to its caller.
C24_BoundedRetry ==
  [][\A c \in Callers :
       LET a == vcall[c]
           b == vcall'[c]
       IN /\ (a.pc = "copy" /\ b # a) =>
               /\ a.i <= a.retry
               /\ \/ /\ a.i < a.retry
                     /\ b = Done(a, Success(a.op))
                  \/ /\ a.i < a.retry
                     /\ b = [a EXCEPT !.i = a.i + 1]
                  \/ /\ a.i = a.retry
                     /\ b = Done(a, Failure(a.op))
          /\ (a.pc = "done" /\ b # a) => b = Idle
  ]_vvars

\* a call has reported the failure after MaxRetry failed attempts
C24_Witness ==
  \E c \in Callers :
     /\ vcall[c].pc = "done"
     /\ vcall[c].said = Failure(vcall[c].op)
     /\ vcall[c].retry = MaxRetry
     /\ vcall[c].i = MaxRetry


\* ---------------------------------------------------------------- C25
\* C25: find_isolated_presets returns the files of all_files that are no key
\* of dep_map and in no value set of it; for the map with the one edge
\* A -> B and the files A, B and C it returns C alone.
C25_FindIsolatedPresets ==
  isolated.called =>
    LET m == isolated.dep_map
    IN /\ isolated.value =
            {f \in isolated.all_files :
               f \notin DOMAIN m /\ \A k \in DOMAIN m : f \notin m[k]}
       /\ (m = ("A" :> {"B"}) /\ isolated.all_files = {"A", "B", "C"})
            => isolated.value = {"C"}

\* find_isolated_presets has been called on the edge A -> B and the files
\* A, B and C
C25_Witness ==
  /\ isolated.called
  /\ isolated.dep_map = ("A" :> {"B"})
  /\ isolated.all_files = {"A", "B", "C"}
  /\ isolated.value = {"C"}


\* ---------------------------------------------------------------- C26
\* the '.json' files of the directory that load as a preset, and those that
\* do not
LoadableFiles == {f \in Nodes : Loads(preset_dir[f])}
MalformedFiles == {f \in Nodes : preset_dir[f] # Absent /\ ~Loads(preset_dir[f])}

\* the dependency sets of the well-formed files that declare a dependency
Declared ==
  LET deps(f) == CollectDependencies(preset_dir[f].value)
  IN [f \in {g \in LoadableFiles : deps(g) # {}} |-> deps(f)]

\* C26 (as the code has it): analyze_all_dependencies never raises for a
\* file it cannot load and opens no file more than `retry` times.  Called
\* with retry >= 1 it returns the dependency sets of exactly the well-formed
\* files that declare a dependency, each malformed file having been tried
\* `retry` times; called with retry = 0 it opens no file and returns the empty
\* map, whatever the directory holds.
C26_BatchSkipsMalformed ==
  /\ report.kind \in {"none", "value"}
  /\ acall.pc # "idle" => \A f \in DirNames : acall.tried[f] <= acall.retry
  /\ acall.pc = "done" =>
       /\ report.kind = "value"
       /\ \A f \in MalformedFiles : f \notin DOMAIN report.value
       /\ acall.retry >= 1 =>
            /\ report.value = Declared
            /\ \A f \in MalformedFiles : acall.tried[f] = acall.retry
            /\ \A f \in LoadableFiles : acall.tried[f] = 1
       /\ acall.retry = 0 =>
            /\ report.value = NoMap
            /\ \A f \in DirNames : acall.tried[f] = 0

\* a batch over a malformed file and a well-formed one that declares a
\* dependency is over: the first was tried MaxRetry times, the second is in
\* the result
C26_Witness ==
  /\ acall.pc = "done"
  /\ acall.retry = MaxRetry
  /\ \E f \in MalformedFiles : preset_dir[f] = Corrupt /\ acall.tried[f] = MaxRetry
  /\ \E g \in DOMAIN Declared : g \in DOMAIN report.value

\* C26 (as claimed): whatever `retry` is, the batch returns the dependency
\* sets of every well-formed file that declares a dependency, without the
\* malformed files, each of which it tried at most `retry` times.
C26_BatchReturnsEveryWellFormed ==
  acall.pc = "done" =>
    /\ report = Returns(Declared)
    /\ \A f \in MalformedFiles : acall.tried[f] <= acall.retry


\* ---------------------------------------------------------------- C27
\* C27: also when two save_version calls interleave at their steps, a
\* snapshot file that has been written keeps its content: no step replaces it.
C27_WriteOnceInterleaved ==
  [][\A v \in VersionNames :
       versions[v] # Absent => versions'[v] = versions[v]
  ]_vvars


\* ---------------------------------------------------------------- C28
\* the simple cycles of map m: sequences of different nodes, each with an
\* edge to the next and the last with an edge to the first
SimpleCycles(m) ==
  {s \in UNION {[1..k -> Nodes] : k \in 1..Cardinality(Nodes)} :
     /\ \A i, j \in 1..Len(s) : i # j => s[i] # s[j]
     /\ \A i \in 1..Len(s) : s[(i % Len(s)) + 1] \in Get(m, s[i])}

\* tuple c is simple cycle s begun at one of its nodes and closed
RotationOf(c, s) ==
  /\ Len(c) = Len(s) + 1
  /\ \E r \in 0..(Len(s) - 1) :
       \A i \in 1..Len(c) : c[i] = s[((i - 1 + r) % Len(s)) + 1]

\* C28: whatever the order in which nodes and neighbours are taken,
\* detect_cycles returns every simple cycle of the map in at least one
\* rotation, and so every node that lies on a cycle is in a returned tuple.
C28_EveryCycleReported ==
  (dop.name = "detect_cycles" /\ result # NoResult) =>
     /\ \A s \in SimpleCycles(dep_map) :
          \E c \in result.value : RotationOf(c, s)
     /\ \A n \in Nodes :
          n \in ReachableFrom(dep_map, n) =>
            \E c \in result.value : \E i \in 1..Len(c) : c[i] = n


\* ---------------------------------------------------------------- C29
\* the keys a diff names, whichever tool made it
ReportedKeys ==
  CASE tool = "diff_dict" -> {diffs[i][1] : i \in 1..Len(diffs)}
    [] tool = "diff_versions" ->
         IF diffs = NoDifference THEN {} ELSE DOMAIN diffs.value
    [] OTHER -> DOMAIN diffs

\* the keys that exactly one of the two presets has
OneSided == (DOMAIN d1 \ DOMAIN d2) \cup (DOMAIN d2 \ DOMAIN d1)

\* C29: the flat diff of two presets names no key (diff_dict returns no
\* line, diff_versions prints "No difference", diff_presets returns {})
\* exactly when the two presets are the same mapping, and a key that only one
\* of them has is always named, also when its value is null.
C29_EmptyDiffIffEqual ==
  tool # "none" =>
     /\ (ReportedKeys = {}) <=> (d1 = d2)
     /\ OneSided \subseteq ReportedKeys


\* ---------------------------------------------------------------- C30
\* the file names of the snapshots save_version has written for preset n
SnapshotsOf(n) == {FileName(VersionName(n, t)) : t \in SnapshotSeconds(n)}

\* the file names in a listing
Listed(listing) == {listing[i] : i \in 1..Len(listing)}

\* C30: after any sequence of save_version calls on several presets,
\* list_versions(base) returns the snapshots written for base, all of them
\* and no snapshot of another preset.
C30_ListsOwnSnapshotsOnly ==
  \A n \in PresetFiles : Listed(ListVersions(versions, n)) = SnapshotsOf(n)

====
